---- MODULE Spec2Model ----
(***************************************************************************)
(* One invocation of the KubeAI Doctor command line (cli/src/main.rs):     *)
(* main parses --check / --namespace, dispatches on the resource string    *)
(* to one of check_nodes, check_pods, check_services, check_events, and    *)
(* the routine connects, lists, iterates and prints.                       *)
(*                                                                         *)
(* Option<T> is modelled as a sequence of length at most one:              *)
(* None is <<>> and Some(x) is <<x>>.                                      *)
(***************************************************************************)
EXTENDS Integers, Sequences, FiniteSets, TLC

\* ---------------------------------------------------------------- bounds
\* longest item list the API server returns
MaxItems == 2
\* longest condition list of a node
MaxConds == 2

\* ---------------------------------------------------------------- inputs
\* values of --check tried: the four valid ones and some that are not
Resources == {"nodes", "pods", "services", "events", "Nodes", "pod", ""}

\* values of --namespace tried
Namespaces == {"default"}

\* metadata.name of the listed objects
NodeNames == {"n1"}
Names == {"a", "b"}

Phases == {"Running", "Pending", "Unknown"}
Messages == {"Pulled image"}

None == <<>>
Some(x) == <<x>>

SeqsUpTo(S, n) == UNION {[1..k -> S] : k \in 0..n}

Options(S) == {None} \cup {Some(x) : x \in S}

\* NodeCondition values tried: the Ready condition with either status, and a
\* condition of another type whose status is True
NodeConditions ==
    {[type_ |-> "Ready", status |-> "True"],
     [type_ |-> "Ready", status |-> "False"],
     [type_ |-> "MemoryPressure", status |-> "True"]}

\* Node: name and status: Option<NodeStatus>, NodeStatus.conditions:
\* Option<Vec<NodeCondition>>
Nodes == [name : NodeNames,
          status : Options([conditions : Options(SeqsUpTo(NodeConditions, MaxConds))])]

\* Pod: name and status: Option<PodStatus>, PodStatus.phase: Option<String>
Pods == [name : Names, status : Options([phase : Options(Phases)])]

Services == [name : Names]

\* Event: name and message: Option<String>
Events == [name : Names, message : Options(Messages)]

VARIABLES
    resource,        \* the --check argument
    namespace,       \* the --namespace argument, an Option
    pc,              \* position of the single task
    invoked,         \* the check routines entered, in order
    connects,        \* number of Client::try_default() attempts
    client,          \* Option: the connected client
    requests,        \* the list requests issued, in order
    items,           \* the items of the list response
    idx,             \* number of items the for loop has taken
    healthy,
    unhealthy,
    stdout,
    stderr,
    routine_result,  \* what the check routine returned
    exit_status      \* exit status of the process, meaningful once pc = "done"

vars == <<resource, namespace, pc, invoked, connects, client, requests, items,
          idx, healthy, unhealthy, stdout, stderr, routine_result, exit_status>>

\* ---------------------------------------------------------------- helpers

\* a printed line; h and u are the two numbers of a summary line
Line(mark, kind, name, detail, h, u) ==
    [mark |-> mark, kind |-> kind, name |-> name, detail |-> detail, h |-> h, u |-> u]

InfoLine(kind) == Line("[INFO]", kind, "", "", 0, 0)
NodeLine(name, ready) ==
    IF ready THEN Line("ok", "Node", name, "", 0, 0)
             ELSE Line("fail", "Node", name, "(NotReady)", 0, 0)
\* variant: only Pending counts as unhealthy
IsRunningUnlessPending(phase) == phase # "Pending"

\* phase == "Running"
IsRunning(phase) == phase = "Running"

PodLine(name, phase) ==
    IF IsRunning(phase) THEN Line("ok", "Pod", name, "", 0, 0)
                         ELSE Line("fail", "Pod", name, phase, 0, 0)
ServiceLine(name) == Line("item", "Service", name, "", 0, 0)
\* variant: name and message swapped
EventLineSwapped(name, message) == Line("item", "Event", message, name, 0, 0)
EventLine(name, message) == Line("item", "Event", name, message, 0, 0)
\* variant: the healthy count printed twice
SummaryLineHealthyTwice(h, u) == Line("[SUMMARY]", "", "", "", h, h)
SummaryLine(h, u) == Line("[SUMMARY]", "", "", "", h, u)

unwrap_or(o, d) == IF o = None THEN d ELSE o[1]

\* variant: the two tests made on different conditions
IsReadySplit(conditions) ==
    /\ \E i \in 1..Len(conditions) : conditions[i].type_ = "Ready"
    /\ \E i \in 1..Len(conditions) : conditions[i].status = "True"

\* conditions.iter().any(|c| c.type_ == "Ready" && c.status == "True")
IsReady(conditions) ==
    \E i \in 1..Len(conditions) :
        conditions[i].type_ = "Ready" /\ conditions[i].status = "True"

\* variant: the match ignores case
DispatchIgnoreCase(r) ==
    CASE r \in {"nodes", "Nodes"} -> "check_nodes"
      [] r \in {"pods", "Pods"} -> "check_pods"
      [] r \in {"services", "Services"} -> "check_services"
      [] r \in {"events", "Events"} -> "check_events"
      [] OTHER -> "invalid"

\* the arm of main's match the resource string selects
Dispatch(r) ==
    CASE r = "nodes" -> "check_nodes"
      [] r = "pods" -> "check_pods"
      [] r = "services" -> "check_services"
      [] r = "events" -> "check_events"
      [] OTHER -> "invalid"

\* variant: the namespace argument dropped
ApiScopeAll(ns) == None

\* Api::namespaced(client, ns) or Api::all(client): the scope of the request
ApiScope(ns) == IF ns # None THEN Some(ns[1]) ELSE None

\* exit status of a process whose main returned r, or panicked
ExitCode(r) ==
    CASE r = "Ok" -> 0
      [] r = "panic" -> 101
      [] OTHER -> 1

Init ==
    /\ resource \in Resources
    /\ namespace \in Options(Namespaces)
    /\ pc = "main"
    /\ invoked = <<>>
    /\ connects = 0
    /\ client = None
    /\ requests = <<>>
    /\ items = <<>>
    /\ idx = 0
    /\ healthy = 0
    /\ unhealthy = 0
    /\ stdout = <<>>
    /\ stderr = <<>>
    /\ routine_result = "none"
    /\ exit_status = 0

\* ---------------------------------------------------------------- main

\* main, lines 29-36: a valid resource string enters its check routine
main_dispatch ==
    /\ pc = "main"
    /\ Dispatch(resource) # "invalid"
    /\ invoked' = Append(invoked, Dispatch(resource))
    /\ pc' = Dispatch(resource)
    /\ UNCHANGED <<resource, namespace, connects, client, requests, items, idx,
                   healthy, unhealthy, stdout, stderr, routine_result, exit_status>>

\* main, line 37: any other string prints the error line
main_invalid ==
    /\ pc = "main"
    /\ Dispatch(resource) = "invalid"
    /\ stderr' = Append(stderr, "[ERROR] Invalid resource")
    /\ pc' = "main_return"
    /\ UNCHANGED <<resource, namespace, invoked, connects, client, requests, items,
                   idx, healthy, unhealthy, stdout, routine_result, exit_status>>

\* variant: the routine's result discarded
MainResultSwallow(rr) == "Ok"

\* variant: anything but a routine's Ok is an error
MainResultStrict(rr) == IF rr = "Ok" THEN "Ok" ELSE "Err"

\* what main returns given what the routine returned: `?` on the routine's
\* result, then Ok(()) on line 40
MainResult(rr) == IF rr \in {"Err(connection)", "Err(list)"} THEN "Err" ELSE "Ok"

\* main, lines 33-40: the routine's error leaves main through `?`, anything
\* else reaches Ok(()); the runtime turns the result into the exit status
main_return ==
    /\ pc = "main_return"
    /\ exit_status' = ExitCode(MainResult(routine_result))
    /\ stderr' = IF MainResult(routine_result) = "Err"
                 THEN Append(stderr, "Error: " \o routine_result)
                 ELSE stderr
    /\ pc' = "done"
    /\ UNCHANGED <<resource, namespace, invoked, connects, client, requests, items,
                   idx, healthy, unhealthy, stdout, routine_result>>

\* ---------------------------------------------------------------- steps shared
\* by the four routines

\* variant: a failed connection is attempted once more
ConnectRetry(routine, kind, next) ==
    /\ pc = routine
    /\ stdout' = Append(stdout, InfoLine(kind))
    /\ connects' = connects + 1
    /\ \/ /\ client' = Some("client")
          /\ pc' = next
          /\ UNCHANGED routine_result
       \/ /\ client' = None
          /\ IF connects = 0
             THEN pc' = routine /\ UNCHANGED routine_result
             ELSE pc' = "main_return" /\ routine_result' = "Err(connection)"
    /\ UNCHANGED <<resource, namespace, invoked, requests, items, idx, healthy,
                   unhealthy, stderr, exit_status>>

\* println!(INFO) then Client::try_default().await?
Connect(routine, kind, next) ==
    /\ pc = routine
    /\ stdout' = Append(stdout, InfoLine(kind))
    /\ connects' = connects + 1
    /\ \/ /\ client' = Some("client")
          /\ pc' = next
          /\ UNCHANGED routine_result
       \/ /\ client' = None
          /\ routine_result' = "Err(connection)"
          /\ pc' = "main_return"
    /\ UNCHANGED <<resource, namespace, invoked, requests, items, idx, healthy,
                   unhealthy, stderr, exit_status>>

\* api.list(..).await? on an Api of the given scope
List(at, kind, scope, Domain, next) ==
    /\ pc = at
    /\ client # None
    /\ requests' = Append(requests, [kind |-> kind, namespace |-> scope])
    /\ \/ /\ \E l \in SeqsUpTo(Domain, MaxItems) : items' = l
          /\ pc' = next
          /\ UNCHANGED routine_result
       \/ /\ items' = <<>>
          /\ routine_result' = "Err(list)"
          /\ pc' = "main_return"
    /\ UNCHANGED <<resource, namespace, invoked, connects, client, idx, healthy,
                   unhealthy, stdout, stderr, exit_status>>

\* variant: an item without status is counted unhealthy and the loop goes on
PanicSkip ==
    /\ idx' = idx + 1
    /\ unhealthy' = unhealthy + 1
    /\ UNCHANGED <<resource, namespace, pc, invoked, connects, client, requests,
                   items, healthy, stdout, stderr, routine_result, exit_status>>

\* Option::unwrap() on None: the panic unwinds through main
Panic ==
    /\ idx' = idx + 1
    /\ stderr' = Append(stderr, "panicked: called Option::unwrap() on a None value")
    /\ exit_status' = ExitCode("panic")
    /\ pc' = "done"
    /\ UNCHANGED <<resource, namespace, invoked, connects, client, requests, items,
                   healthy, unhealthy, stdout, routine_result>>

\* ---------------------------------------------------------------- check_nodes

check_nodes_connect == Connect("check_nodes", "nodes", "nodes_list")

\* Api::all(client), whatever the namespace argument
check_nodes_list == List("nodes_list", "nodes", None, Nodes, "nodes_loop")

\* one pass of the for loop, lines 52-64
check_nodes_item ==
    /\ pc = "nodes_loop"
    /\ idx < Len(items)
    /\ LET node == items[idx + 1] IN
        IF node.status = None
        THEN Panic
        ELSE LET conditions == unwrap_or(node.status[1].conditions, <<>>) IN
             /\ idx' = idx + 1
             /\ stdout' = Append(stdout, NodeLine(node.name, IsReady(conditions)))
             /\ healthy' = IF IsReady(conditions) THEN healthy + 1 ELSE healthy
             /\ unhealthy' = IF IsReady(conditions) THEN unhealthy ELSE unhealthy + 1
             /\ UNCHANGED <<resource, namespace, pc, invoked, connects, client,
                            requests, items, stderr, routine_result, exit_status>>

\* lines 65-66
check_nodes_summary ==
    /\ pc = "nodes_loop"
    /\ idx = Len(items)
    /\ stdout' = Append(stdout, SummaryLine(healthy, unhealthy))
    /\ routine_result' = "Ok"
    /\ pc' = "main_return"
    /\ UNCHANGED <<resource, namespace, invoked, connects, client, requests, items,
                   idx, healthy, unhealthy, stderr, exit_status>>

\* ---------------------------------------------------------------- check_pods

check_pods_connect == Connect("check_pods", "pods", "pods_list")

check_pods_list == List("pods_list", "pods", ApiScope(namespace), Pods, "pods_loop")

\* one pass of the for loop, lines 82-94
check_pods_item ==
    /\ pc = "pods_loop"
    /\ idx < Len(items)
    /\ LET pod == items[idx + 1] IN
        IF pod.status = None
        THEN Panic
        ELSE LET phase == unwrap_or(pod.status[1].phase, "Unknown") IN
             /\ idx' = idx + 1
             /\ stdout' = Append(stdout, PodLine(pod.name, phase))
             /\ healthy' = IF IsRunning(phase) THEN healthy + 1 ELSE healthy
             /\ unhealthy' = IF IsRunning(phase) THEN unhealthy ELSE unhealthy + 1
             /\ UNCHANGED <<resource, namespace, pc, invoked, connects, client,
                            requests, items, stderr, routine_result, exit_status>>

\* lines 95-96
check_pods_summary ==
    /\ pc = "pods_loop"
    /\ idx = Len(items)
    /\ stdout' = Append(stdout, SummaryLine(healthy, unhealthy))
    /\ routine_result' = "Ok"
    /\ pc' = "main_return"
    /\ UNCHANGED <<resource, namespace, invoked, connects, client, requests, items,
                   idx, healthy, unhealthy, stderr, exit_status>>

\* ---------------------------------------------------------------- check_services

check_services_connect == Connect("check_services", "services", "services_list")

check_services_list ==
    List("services_list", "services", ApiScope(namespace), Services, "services_loop")

\* one pass of the for loop, lines 109-112
check_services_item ==
    /\ pc = "services_loop"
    /\ idx < Len(items)
    /\ idx' = idx + 1
    /\ stdout' = Append(stdout, ServiceLine(items[idx + 1].name))
    /\ UNCHANGED <<resource, namespace, pc, invoked, connects, client, requests,
                   items, healthy, unhealthy, stderr, routine_result, exit_status>>

\* line 113
check_services_return ==
    /\ pc = "services_loop"
    /\ idx = Len(items)
    /\ routine_result' = "Ok"
    /\ pc' = "main_return"
    /\ UNCHANGED <<resource, namespace, invoked, connects, client, requests, items,
                   idx, healthy, unhealthy, stdout, stderr, exit_status>>

\* ---------------------------------------------------------------- check_events

check_events_connect == Connect("check_events", "events", "events_list")

check_events_list ==
    List("events_list", "events", ApiScope(namespace), Events, "events_loop")

\* one pass of the for loop, lines 126-130
check_events_item ==
    /\ pc = "events_loop"
    /\ idx < Len(items)
    /\ LET event == items[idx + 1]
           message == unwrap_or(event.message, "No message") IN
        /\ idx' = idx + 1
        /\ stdout' = Append(stdout, EventLine(event.name, message))
    /\ UNCHANGED <<resource, namespace, pc, invoked, connects, client, requests,
                   items, healthy, unhealthy, stderr, routine_result, exit_status>>

\* line 131
check_events_return ==
    /\ pc = "events_loop"
    /\ idx = Len(items)
    /\ routine_result' = "Ok"
    /\ pc' = "main_return"
    /\ UNCHANGED <<resource, namespace, invoked, connects, client, requests, items,
                   idx, healthy, unhealthy, stdout, stderr, exit_status>>

\* ---------------------------------------------------------------- specification

Next ==
    \/ main_dispatch
    \/ main_invalid
    \/ main_return
    \/ check_nodes_connect
    \/ check_nodes_list
    \/ check_nodes_item
    \/ check_nodes_summary
    \/ check_pods_connect
    \/ check_pods_list
    \/ check_pods_item
    \/ check_pods_summary
    \/ check_services_connect
    \/ check_services_list
    \/ check_services_item
    \/ check_services_return
    \/ check_events_connect
    \/ check_events_list
    \/ check_events_item
    \/ check_events_return

Spec == Init /\ [][Next]_vars

\* ---------------------------------------------------------------- properties

Range(s) == {s[i] : i \in 1..Len(s)}

ValidResources == {"nodes", "pods", "services", "events"}

\* the list call has returned its items
ListSucceeded == Len(requests) = 1 /\ routine_result # "Err(list)"

\* the lines printed for items, in print order
ItemLines == SelectSeq(stdout, LAMBDA l : l.kind \in {"Node", "Pod", "Service", "Event"})

SummaryLines == SelectSeq(stdout, LAMBDA l : l.mark = "[SUMMARY]")

HasStatus(item) == Len(item.status) = 1

\* the item list has an item without a status block
SomeStatusMissing == \E i \in 1..Len(items) : ~HasStatus(items[i])

\* position of the first item without a status block
FirstMissing == CHOOSE i \in 1..Len(items) :
    /\ ~HasStatus(items[i])
    /\ \A j \in 1..(i - 1) : HasStatus(items[j])

\* the node's condition list holds a condition Ready = True
ReadyTrue(node) ==
    /\ Len(node.status[1].conditions) = 1
    /\ [type_ |-> "Ready", status |-> "True"] \in Range(node.status[1].conditions[1])

\* the pod's phase is present and is Running
PhaseRunning(pod) == pod.status[1].phase = <<"Running">>

\* C1: every node line printed by check_nodes is the healthy line (no
\* "(NotReady)") exactly when the node's condition list holds a condition of
\* type Ready and status True, and the healthy / unhealthy counters count the
\* nodes of the two classes among the nodes classified so far.
C1_NodeHealthyIffReadyTrue ==
    resource = "nodes" =>
        LET n == Len(ItemLines) IN
        /\ n <= Len(items)
        /\ \A i \in 1..n :
            /\ ItemLines[i].kind = "Node"
            /\ ItemLines[i].name = items[i].name
            /\ HasStatus(items[i])
            /\ IF ReadyTrue(items[i])
               THEN ItemLines[i].mark = "ok" /\ ItemLines[i].detail = ""
               ELSE ItemLines[i].mark = "fail" /\ ItemLines[i].detail = "(NotReady)"
        /\ healthy = Cardinality({i \in 1..n : ReadyTrue(items[i])})
        /\ unhealthy = Cardinality({i \in 1..n : ~ReadyTrue(items[i])})

\* two nodes classified: one with Ready = False next to MemoryPressure = True,
\* one with Ready = True after another condition
C1_Witness ==
    /\ resource = "nodes"
    /\ pc = "done"
    /\ Len(items) = 2
    /\ items[1].status = <<[conditions |-> << <<[type_ |-> "Ready", status |-> "False"],
                                                [type_ |-> "MemoryPressure", status |-> "True"]>> >>]>>
    /\ items[2].status = <<[conditions |-> << <<[type_ |-> "Ready", status |-> "False"],
                                                [type_ |-> "Ready", status |-> "True"]>> >>]>>
    /\ healthy = 1
    /\ unhealthy = 1
    /\ Len(ItemLines) = 2

\* C2: every pod line printed by check_pods is the healthy line exactly when
\* the pod's phase is Running; otherwise it shows the phase, "Unknown" when
\* the phase is absent, and counts as unhealthy; when every pod has a status
\* block the routine prints a line for every pod and ends with status 0.
C2_PodHealthyIffRunning ==
    resource = "pods" =>
        LET n == Len(ItemLines) IN
        /\ n <= Len(items)
        /\ \A i \in 1..n :
            /\ ItemLines[i].kind = "Pod"
            /\ ItemLines[i].name = items[i].name
            /\ HasStatus(items[i])
            /\ IF PhaseRunning(items[i])
               THEN ItemLines[i].mark = "ok" /\ ItemLines[i].detail = ""
               ELSE /\ ItemLines[i].mark = "fail"
                    /\ ItemLines[i].detail =
                         IF items[i].status[1].phase = <<>>
                         THEN "Unknown"
                         ELSE items[i].status[1].phase[1]
        /\ healthy = Cardinality({i \in 1..n : PhaseRunning(items[i])})
        /\ unhealthy = Cardinality({i \in 1..n : ~PhaseRunning(items[i])})
        /\ (pc = "done" /\ ListSucceeded /\ ~SomeStatusMissing) =>
               (n = Len(items) /\ exit_status = 0 /\ routine_result = "Ok")

\* a pod without phase was shown as Unknown and counted unhealthy, and the
\* routine went on to a Running pod
C2_Witness ==
    /\ resource = "pods"
    /\ pc = "done"
    /\ Len(items) = 2
    /\ items[1].status = <<[phase |-> <<>>]>>
    /\ items[2].status = <<[phase |-> <<"Running">>]>>
    /\ Len(ItemLines) = 2
    /\ ItemLines[1].detail = "Unknown"
    /\ healthy = 1
    /\ unhealthy = 1
    /\ exit_status = 0

\* C3: in check_nodes and check_pods the two counters add up to the number of
\* items classified so far at every point of the loop, and the numbers of a
\* printed summary line add up to the number of items the list call returned.
C3_CountsAddUp ==
    resource \in {"nodes", "pods"} =>
        /\ pc \in {"nodes_loop", "pods_loop"} => healthy + unhealthy = idx
        /\ healthy + unhealthy = Len(ItemLines)
        /\ Len(SummaryLines) <= 1
        /\ \A i \in 1..Len(SummaryLines) :
               /\ SummaryLines[i].h + SummaryLines[i].u = Len(items)
               /\ SummaryLines[i].h = healthy
               /\ SummaryLines[i].u = unhealthy

\* a summary over two items, one of each class
C3_Witness ==
    /\ resource \in {"nodes", "pods"}
    /\ Len(items) = 2
    /\ Len(SummaryLines) = 1
    /\ SummaryLines[1].h = 1
    /\ SummaryLines[1].u = 1

\* C4: the list request of check_pods, check_services and check_events
\* carries exactly the namespace argument (that namespace when supplied, all
\* namespaces when omitted); the list request of check_nodes is cluster
\* scoped whatever the namespace argument; there is at most one request.
C4_NamespaceScope ==
    /\ Len(requests) <= 1
    /\ \A i \in 1..Len(requests) :
        /\ requests[i].kind = resource
        /\ IF resource = "nodes"
           THEN requests[i].namespace = <<>>
           ELSE requests[i].namespace = namespace

\* a namespaced list request has been issued
C4_Witness ==
    /\ resource \in {"pods", "services", "events"}
    /\ namespace = <<"default">>
    /\ Len(requests) = 1
    /\ requests[1].namespace = <<"default">>

\* C5: with a resource string other than nodes, pods, services, events, no
\* check routine is entered, no connection is attempted and no list request
\* is issued.
C5_InvalidTouchesNothing ==
    resource \notin ValidResources =>
        /\ invoked = <<>>
        /\ connects = 0
        /\ client = <<>>
        /\ requests = <<>>
        /\ stdout = <<>>

\* an invocation with a string differing from a valid one only in case has ended
C5_Witness ==
    /\ resource = "Nodes"
    /\ pc = "done"
    /\ connects = 0

\* C6: with a valid resource string exactly the routine of that name is
\* entered, and once the process has ended without a panic its exit status
\* is 0 when the routine returned Ok and non-zero when it failed with a
\* connection error or a list error.
C6_DispatchAndExit ==
    resource \in ValidResources =>
        /\ invoked \in {<<>>, <<"check_" \o resource>>}
        /\ pc # "main" => invoked = <<"check_" \o resource>>
        /\ (pc = "done" /\ routine_result = "Ok") => exit_status = 0
        /\ (pc = "done" /\ routine_result \in {"Err(connection)", "Err(list)"}) =>
               exit_status # 0
        /\ (pc = "done" /\ connects = 1 /\ client = <<>>) =>
               (routine_result = "Err(connection)" /\ exit_status # 0)

\* a list error has reached the exit status
C6_Witness ==
    /\ resource = "services"
    /\ pc = "done"
    /\ routine_result = "Err(list)"
    /\ exit_status # 0

\* C7: an invocation with an unrecognized resource string ends with exactly
\* one line on stderr, the invalid-resource error, without a panic and with
\* exit status 0.
C7_InvalidExitsZero ==
    (resource \notin ValidResources /\ pc = "done") =>
        /\ stderr = <<"[ERROR] Invalid resource">>
        /\ exit_status = 0
        /\ routine_result = "none"

C7_Witness ==
    /\ resource = "pod"
    /\ pc = "done"
    /\ Len(stderr) = 1
    /\ exit_status = 0

\* C8: in check_nodes and check_pods, once the list call has succeeded and
\* the process has ended: if some item has no status block, the lines of the
\* items before the first such item are printed and nothing after them, no
\* summary line is printed, the routine never returned and the exit status is
\* non-zero; if every item has a status block (its condition list or phase
\* present or not), every item has a line, the summary is printed and the
\* exit status is 0.
C8_MissingStatusCrashes ==
    (resource \in {"nodes", "pods"} /\ pc = "done" /\ ListSucceeded) =>
        IF SomeStatusMissing
        THEN /\ Len(ItemLines) = FirstMissing - 1
             /\ \A i \in 1..(FirstMissing - 1) : ItemLines[i].name = items[i].name
             /\ Len(stdout) = FirstMissing
             /\ SummaryLines = <<>>
             /\ routine_result = "none"
             /\ exit_status # 0
        ELSE /\ Len(ItemLines) = Len(items)
             /\ Len(SummaryLines) = 1
             /\ Len(stdout) = Len(items) + 2
             /\ exit_status = 0

\* the second of two nodes has no status block: one item line, then the crash
C8_Witness ==
    /\ resource = "nodes"
    /\ pc = "done"
    /\ Len(items) = 2
    /\ items[1].status = <<[conditions |-> <<>>]>>
    /\ items[2].status = <<>>
    /\ Len(ItemLines) = 1
    /\ SummaryLines = <<>>
    /\ exit_status # 0

\* C9: check_events prints, after its header, exactly one line per event in
\* list order, with the event's name and its message, "No message" standing
\* for an absent message; it prints nothing else, and once the list call has
\* succeeded it ends with every event printed and exit status 0.
C9_EventLines ==
    resource = "events" =>
        LET n == Len(ItemLines) IN
        /\ n = idx
        /\ n <= Len(items)
        /\ \A i \in 1..n :
            /\ ItemLines[i].kind = "Event"
            /\ ItemLines[i].name = items[i].name
            /\ ItemLines[i].detail =
                 IF items[i].message = <<>> THEN "No message" ELSE items[i].message[1]
        /\ \A i \in 1..Len(stdout) :
               (i = 1 /\ stdout[i].mark = "[INFO]") \/ (i > 1 /\ stdout[i].kind = "Event")
        /\ healthy = 0 /\ unhealthy = 0
        /\ (pc = "done" /\ ListSucceeded) =>
               (n = Len(items) /\ exit_status = 0 /\ routine_result = "Ok")

\* two events printed, the first without a message
C9_Witness ==
    /\ resource = "events"
    /\ pc = "done"
    /\ Len(items) = 2
    /\ items[1] = [name |-> "b", message |-> <<>>]
    /\ items[2] = [name |-> "a", message |-> <<"Pulled image">>]
    /\ Len(ItemLines) = 2
    /\ ItemLines[1].detail = "No message"

\* C10: per invocation there is at most one connection attempt and at most
\* one list request, a list request only after the connection succeeded, an
\* item or summary line only after the list call succeeded; after a
\* connection or list failure the routine has returned that error with no
\* item output and no further attempt.
C10_LinearSequence ==
    /\ connects <= 1
    /\ Len(requests) <= 1
    /\ Len(requests) = 1 => (connects = 1 /\ client # <<>>)
    /\ client # <<>> => connects = 1
    /\ (ItemLines # <<>> \/ SummaryLines # <<>>) => ListSucceeded
    /\ idx > 0 => ListSucceeded
    /\ (connects = 1 /\ client = <<>>) =>
           /\ routine_result = "Err(connection)"
           /\ requests = <<>>
           /\ pc \in {"main_return", "done"}
           /\ Len(stdout) = 1
    /\ routine_result = "Err(list)" =>
           /\ Len(requests) = 1
           /\ pc \in {"main_return", "done"}
           /\ Len(stdout) = 1

\* a list failure after a successful connection has ended the invocation
C10_Witness ==
    /\ pc = "done"
    /\ connects = 1
    /\ client # <<>>
    /\ routine_result = "Err(list)"
    /\ Len(stdout) = 1
    /\ exit_status # 0

====
